---- MODULE Spec2Model ----
(***************************************************************************)
(* A model of ts-results-es: the Option (Some / None) and Result (Ok / Err) *)
(* variant pairs of src/src/option.ts, their instance methods and the       *)
(* static helpers of the Option and Result namespaces.                      *)
(*                                                                          *)
(* Instances live in a heap (a sequence; an instance's identity is its      *)
(* index).  A caller performs one library call at a time; the call's        *)
(* completion (returned value or raised value, and the callbacks that were  *)
(* invoked) is recorded in `last` until the caller moves on.  Moving on,    *)
(* the caller either keeps the instances the call constructed or drops its  *)
(* references to them, and they are reclaimed.                              *)
(***************************************************************************)
EXTENDS Integers, Sequences, FiniteSets, TLC

VARIABLES
    heap,       \* the live instances; heap[i] is instance i
    kept,       \* how many of them existed before the call in `last`
    last,       \* the completion of the call the caller has just made
    promises,   \* the promises of the wrapAsync call in flight
    jobs        \* the microtask queue: promise reaction jobs, in order

vars == <<heap, kept, last, promises, jobs>>

(***************************************************************************)
(* Bounds of the model.                                                     *)
(***************************************************************************)
\* instances the caller keeps, besides those of module load
MaxHeap == 1
\* number of inputs handed to all / any
MaxArgs == 2
\* number of andThen calls in a chain
MaxChain == 2

(***************************************************************************)
(* JavaScript values.                                                       *)
(***************************************************************************)
Undefined == [k |-> "undefined"]
Null == [k |-> "null"]
Num(n) == [k |-> "number", n |-> n]
Str(s) == [k |-> "string", s |-> s]
Bool(b) == [k |-> "boolean", b |-> b]
\* a reference to the instance heap[id]
Ref(id) == [k |-> "object", id |-> id]
\* an array, by content
Arr(xs) == [k |-> "array", xs |-> xs]
\* a function, by name
Fn(name) == [k |-> "function", name |-> name]
\* the object made by  new Error(message)  or  new Error(message, { cause })
ErrorObject(message, hasCause, cause) ==
    [k |-> "error", ctor |-> "Error", message |-> message,
     hasCause |-> hasCause, cause |-> cause]

\* the values a caller wraps or passes as defaults
InputVals == {Num(1), Num(2)}
\* the messages a caller passes to expect / expectErr
Msgs == {"msg"}
\* the value a raising callback raises
Thrown == Str("boom")
\* the places in the caller's code a call is made from, as stack frames
Sites == {"    at siteA", "    at siteB"}
\* the frame of the module's own top-level code
ModuleFrame == "    at Object.<anonymous>"

(***************************************************************************)
(* Completions: how a call, or a callback, ends.                            *)
(***************************************************************************)
Return(v, h, calls) == [type |-> "return", value |-> v, heap |-> h, calls |-> calls]
Throw(v, h, calls) == [type |-> "throw", value |-> v, heap |-> h, calls |-> calls]

(***************************************************************************)
(* Text helpers.                                                            *)
(***************************************************************************)
Digits == <<"0", "1", "2", "3", "4", "5", "6", "7", "8", "9">>

RECURSIVE NumStr(_)
NumStr(n) == IF n < 10 THEN Digits[n + 1]
             ELSE NumStr(n \div 10) \o Digits[(n % 10) + 1]

\* Array.prototype.slice(n): the elements from index n (0-based) on
Slice(xs, n) == SubSeq(xs, n + 1, Len(xs))

\* Array.prototype.join(sep) on an array of strings
RECURSIVE Join(_, _)
Join(xs, sep) == IF Len(xs) = 0 THEN ""
                 ELSE IF Len(xs) = 1 THEN xs[1]
                 ELSE xs[1] \o sep \o Join(Tail(xs), sep)

(***************************************************************************)
(* The stringification helper of utils.js and the toString methods that     *)
(* use it.  String(val) on an instance calls the instance's own toString.   *)
(***************************************************************************)
RECURSIVE toString(_, _)
RECURSIVE ArrayJoin(_, _)
ArrayJoin(xs, h) ==
    IF Len(xs) = 0 THEN ""
    ELSE LET x == IF xs[1].k \in {"undefined", "null"} THEN "" ELSE toString(xs[1], h)
         IN IF Len(xs) = 1 THEN x ELSE x \o "," \o ArrayJoin(Tail(xs), h)

toString(val, h) ==
    CASE val.k = "undefined" -> "undefined"
      [] val.k = "null" -> "null"
      [] val.k = "boolean" -> IF val.b THEN "true" ELSE "false"
      [] val.k = "number" -> NumStr(val.n)
      [] val.k = "string" -> val.s
      [] val.k = "array" -> ArrayJoin(val.xs, h)
      [] val.k = "function" -> "function " \o val.name
      [] val.k = "error" -> val.ctor \o ": " \o val.message
      [] val.k = "object" ->
            LET o == h[val.id]
            IN CASE o.cls = "NoneImpl" -> "None"
                 [] o.cls = "SomeImpl" -> "Some(" \o toString(o.val, h) \o ")"
                 [] o.cls = "OkImpl" -> "Ok(" \o toString(o.val, h) \o ")"
                 [] o.cls = "ErrImpl" -> "Err(" \o toString(o.val, h) \o ")"

\* the object made by  new Error(message, { cause })  in a method called from
\* the frames `callers`: the engine gives it a stack of its own, which starts
\* with the message and holds the frames of the place it was made
ErrorAt(message, cause, callers) ==
    ErrorObject(message, TRUE, cause)
        @@ [stack |-> Join(<<"Error: " \o message>> \o callers, "\n")]

(***************************************************************************)
(* Construction.                                                            *)
(***************************************************************************)
\* new NoneImpl(), then Object.freeze
NoneImpl_new == [cls |-> "NoneImpl", some |-> FALSE, none |-> TRUE]

\* the fields SomeImpl's constructor sets
SomeImpl_new(val) == [cls |-> "SomeImpl", some |-> TRUE, none |-> FALSE, val |-> val]

\* the fields OkImpl's constructor sets
OkImpl_new(val) == [cls |-> "OkImpl", ok |-> TRUE, err |-> FALSE, val |-> val]

\* the stack frames whose text includes 'ErrImpl'
FramesNamingErrImpl ==
    {"    at new ErrImpl", "    at ErrImpl", "    at ErrImpl.mapErr"}

\* the provenance text ErrImpl's constructor keeps: `callers` are the frames
\* below the constructor's own, innermost first
ErrImpl_stack(callers) ==
    LET stack == <<"Error", "    at new ErrImpl">> \o callers
        stackLines == Slice(stack, 2)
        shifted == IF Len(stackLines) > 0 /\ stackLines[1] \in FramesNamingErrImpl
                   THEN Tail(stackLines)
                   ELSE stackLines
    IN Join(shifted, "\n")

\* a slip: the constructor sets the flags of an Ok
ErrImpl_new_okFlags(val, callers) ==
    [cls |-> "ErrImpl", ok |-> TRUE, err |-> FALSE, val |-> val,
     _stack |-> ErrImpl_stack(callers)]

\* the fields ErrImpl's constructor sets
ErrImpl_new(val, callers) ==
    [cls |-> "ErrImpl", ok |-> FALSE, err |-> TRUE, val |-> val,
     _stack |-> ErrImpl_stack(callers)]

\* a new instance is added to the heap; the reference to it is returned
Construct(obj, h) == Return(Ref(Len(h) + 1), Append(h, obj), <<>>)

\* Some(val) and new Some(val)
Some(val, h) == Construct(SomeImpl_new(val), h)

\* Ok(val) and new Ok(val)
Ok(val, h) == Construct(OkImpl_new(val), h)

\* new Err(val), called from the frames `callers`
NewErr(val, h, callers) == Construct(ErrImpl_new(val, callers), h)

\* Err(val) without `new`: the constructor calls itself with `new`
Err(val, h, callers) == NewErr(val, h, <<"    at ErrImpl">> \o callers)

\* the heap after the modules are loaded: None, SomeImpl.EMPTY, ErrImpl.EMPTY,
\* OkImpl.EMPTY
NoneId == 1
InitHeap ==
    <<NoneImpl_new, SomeImpl_new(Undefined),
      ErrImpl_new(Undefined, <<ModuleFrame>>), OkImpl_new(Undefined)>>

\* the None singleton
None == Ref(NoneId)

HeapCap == Len(InitHeap) + MaxHeap

OptionIds(h) == {i \in 1..Len(h) : h[i].cls \in {"NoneImpl", "SomeImpl"}}
ResultIds(h) == {i \in 1..Len(h) : h[i].cls \in {"OkImpl", "ErrImpl"}}

(***************************************************************************)
(* The caller's callbacks.  A callback runs in its own frame above the      *)
(* frames `callers` of the method that invokes it.                          *)
(***************************************************************************)
Mappers == {"swap", "throws"}
OptionMappers == {"toSome", "toNone", "throws"}
ResultMappers == {"toOk", "toErr", "throws"}
DefaultFns == {"two", "throws"}

Invoke(fn, arg, h, callers) ==
    CASE fn = "swap" -> Return(IF arg = Num(1) THEN Num(2)
                               ELSE IF arg = Num(2) THEN Num(1) ELSE arg, h, <<>>)
      [] fn = "two" -> Return(Num(2), h, <<>>)
      [] fn = "throws" -> Throw(Thrown, h, <<>>)
      [] fn = "toSome" -> Some(arg, h)
      [] fn = "toNone" -> Return(None, h, <<>>)
      [] fn = "toOk" -> Ok(arg, h)
      [] fn = "toErr" -> Err(arg, h, <<"    at " \o fn>> \o callers)

\* the record of one callback invocation that completed as c
Called(fn, arg, c) ==
    <<[fn |-> fn, arg |-> arg, type |-> c.type, value |-> c.value]>>

\* the completion of a method that returns what its callback returns
\* (return fn(arg)): a raise inside the callback passes through the method
Tail_call(fn, arg, h, callers) ==
    LET c == Invoke(fn, arg, h, callers)
    IN [c EXCEPT !.calls = Called(fn, arg, c)]

\* the elements an iteration over Object(val) yields
RECURSIVE Elements(_, _)
Elements(val, h) ==
    CASE val.k = "array" -> val.xs
      [] val.k = "object" ->
            IF h[val.id].cls \in {"SomeImpl", "OkImpl"}
            THEN Elements(h[val.id].val, h)
            ELSE <<>>
      [] OTHER -> <<>>

(***************************************************************************)
(* class NoneImpl.  `self` is the receiver's index in the heap h.           *)
(***************************************************************************)
NoneImpl_iterator(h, self) == Return(Arr(<<>>), h, <<>>)

NoneImpl_unwrapOr(h, self, val) == Return(val, h, <<>>)

NoneImpl_expect(h, self, msg) ==
    Throw(ErrorObject(msg, FALSE, Undefined), h, <<>>)

NoneImpl_unwrap(h, self) ==
    Throw(ErrorObject("Tried to unwrap None", FALSE, Undefined), h, <<>>)

NoneImpl_map(h, self, mapper) == Return(Ref(self), h, <<>>)

NoneImpl_mapOr(h, self, default_, mapper) == Return(default_, h, <<>>)

NoneImpl_mapOrElse(h, self, default_, mapper, callers) ==
    Tail_call(default_, Undefined, h, <<"    at NoneImpl.mapOrElse">> \o callers)

NoneImpl_or(h, self, other) == Return(other, h, <<>>)

NoneImpl_orElse(h, self, other, callers) ==
    Tail_call(other, Undefined, h, <<"    at NoneImpl.orElse">> \o callers)

NoneImpl_andThen(h, self, op) == Return(Ref(self), h, <<>>)

NoneImpl_toResult(h, self, error, callers) ==
    Err(error, h, <<"    at NoneImpl.toResult">> \o callers)

NoneImpl_toString(h, self) == Return(Str("None"), h, <<>>)

(***************************************************************************)
(* class SomeImpl.                                                          *)
(***************************************************************************)
SomeImpl_iterator(h, self) == Return(Arr(Elements(h[self].val, h)), h, <<>>)

SomeImpl_unwrapOr(h, self, val) == Return(h[self].val, h, <<>>)

SomeImpl_expect(h, self, msg) == Return(h[self].val, h, <<>>)

\* a slip: Some's unwrap written like None's
SomeImpl_unwrap_raising(h, self) ==
    Throw(ErrorObject("Tried to unwrap None", FALSE, Undefined), h, <<>>)

SomeImpl_unwrap(h, self) == Return(h[self].val, h, <<>>)

SomeImpl_map(h, self, mapper, callers) ==
    LET c == Tail_call(mapper, h[self].val, h, <<"    at SomeImpl.map">> \o callers)
    IN IF c.type = "throw" THEN c
       ELSE [Some(c.value, c.heap) EXCEPT !.calls = c.calls]

SomeImpl_mapOr(h, self, default_, mapper, callers) ==
    Tail_call(mapper, h[self].val, h, <<"    at SomeImpl.mapOr">> \o callers)

SomeImpl_mapOrElse(h, self, default_, mapper, callers) ==
    Tail_call(mapper, h[self].val, h, <<"    at SomeImpl.mapOrElse">> \o callers)

SomeImpl_or(h, self, other) == Return(Ref(self), h, <<>>)

SomeImpl_orElse(h, self, other, callers) == Return(Ref(self), h, <<>>)

SomeImpl_andThen(h, self, mapper, callers) ==
    Tail_call(mapper, h[self].val, h, <<"    at SomeImpl.andThen">> \o callers)

\* a slip: toResult wraps its argument instead of the receiver's value
SomeImpl_toResult_wrappingError(h, self, error, callers) == Ok(error, h)

SomeImpl_toResult(h, self, error, callers) == Ok(h[self].val, h)

SomeImpl_safeUnwrap(h, self) == Return(h[self].val, h, <<>>)

SomeImpl_toString(h, self) ==
    Return(Str("Some(" \o toString(h[self].val, h) \o ")"), h, <<>>)

(***************************************************************************)
(* class ErrImpl.                                                           *)
(***************************************************************************)
ErrImpl_iterator(h, self) == Return(Arr(<<>>), h, <<>>)

ErrImpl_else(h, self, val) == Return(val, h, <<>>)

ErrImpl_unwrapOr(h, self, val) == Return(val, h, <<>>)

ErrImpl_expect(h, self, msg, callers) ==
    Throw(ErrorAt(msg \o " - Error: " \o toString(h[self].val, h) \o "\n"
                      \o h[self]._stack,
                  h[self].val, <<"    at ErrImpl.expect">> \o callers), h, <<>>)

ErrImpl_expectErr(h, self, msg) == Return(h[self].val, h, <<>>)

\* a slip: the message carries the frames of the call of unwrap
ErrImpl_unwrap_hereStack(h, self, callers) ==
    Throw(ErrorAt("Tried to unwrap Error: " \o toString(h[self].val, h) \o "\n"
                      \o Join(callers, "\n"),
                  h[self].val, <<"    at ErrImpl.unwrap">> \o callers), h, <<>>)

ErrImpl_unwrap(h, self, callers) ==
    Throw(ErrorAt("Tried to unwrap Error: " \o toString(h[self].val, h) \o "\n"
                      \o h[self]._stack,
                  h[self].val, <<"    at ErrImpl.unwrap">> \o callers), h, <<>>)

ErrImpl_unwrapErr(h, self) == Return(h[self].val, h, <<>>)

ErrImpl_map(h, self, mapper) == Return(Ref(self), h, <<>>)

\* a slip: Err's andThen written like Ok's
ErrImpl_andThen_invoking(h, self, op) ==
    Tail_call(op, h[self].val, h, <<"    at ErrImpl.andThen">>)

ErrImpl_andThen(h, self, op) == Return(Ref(self), h, <<>>)

\* a slip: the mapped error is written into the receiver
ErrImpl_mapErr_inPlace(h, self, mapper, callers) ==
    LET c == Tail_call(mapper, h[self].val, h, <<"    at ErrImpl.mapErr">> \o callers)
    IN IF c.type = "throw" THEN c
       ELSE Return(Ref(self), [c.heap EXCEPT ![self].val = c.value], c.calls)

ErrImpl_mapErr(h, self, mapper, callers) ==
    LET here == <<"    at ErrImpl.mapErr">> \o callers
        c == Tail_call(mapper, h[self].val, h, here)
    IN IF c.type = "throw" THEN c
       ELSE [NewErr(c.value, c.heap, here) EXCEPT !.calls = c.calls]

ErrImpl_mapOr(h, self, default_, mapper) == Return(default_, h, <<>>)

ErrImpl_mapOrElse(h, self, default_, mapper, callers) ==
    Tail_call(default_, Undefined, h, <<"    at ErrImpl.mapOrElse">> \o callers)

ErrImpl_or(h, self, other) == Return(other, h, <<>>)

ErrImpl_orElse(h, self, other, callers) ==
    Tail_call(other, Undefined, h, <<"    at ErrImpl.orElse">> \o callers)

\* a slip: toOption makes an absent Option of its own
ErrImpl_toOption_fresh(h, self) == Construct(NoneImpl_new, h)

ErrImpl_toOption(h, self) == Return(None, h, <<>>)

ErrImpl_toString(h, self) ==
    Return(Str("Err(" \o toString(h[self].val, h) \o ")"), h, <<>>)

\* the `stack` getter: `${this}` is this.toString()
ErrImpl_get_stack(h, self) ==
    Return(Str(ErrImpl_toString(h, self).value.s \o "\n" \o h[self]._stack), h, <<>>)

(***************************************************************************)
(* class OkImpl.                                                            *)
(***************************************************************************)
OkImpl_iterator(h, self) == Return(Arr(Elements(h[self].val, h)), h, <<>>)

OkImpl_else(h, self, val) == Return(h[self].val, h, <<>>)

OkImpl_unwrapOr(h, self, val) == Return(h[self].val, h, <<>>)

OkImpl_expect(h, self, msg) == Return(h[self].val, h, <<>>)

\* a slip: Ok's expectErr written like Err's
OkImpl_expectErr_returning(h, self, msg) == Return(h[self].val, h, <<>>)

OkImpl_expectErr(h, self, msg) ==
    Throw(ErrorObject(msg, FALSE, Undefined), h, <<>>)

OkImpl_unwrap(h, self) == Return(h[self].val, h, <<>>)

OkImpl_unwrapErr(h, self) ==
    Throw(ErrorObject("Tried to unwrap Ok: " \o toString(h[self].val, h),
                      TRUE, h[self].val), h, <<>>)

OkImpl_map(h, self, mapper, callers) ==
    LET c == Tail_call(mapper, h[self].val, h, <<"    at OkImpl.map">> \o callers)
    IN IF c.type = "throw" THEN c
       ELSE [Ok(c.value, c.heap) EXCEPT !.calls = c.calls]

OkImpl_andThen(h, self, mapper, callers) ==
    Tail_call(mapper, h[self].val, h, <<"    at OkImpl.andThen">> \o callers)

OkImpl_mapErr(h, self, mapper) == Return(Ref(self), h, <<>>)

OkImpl_mapOr(h, self, default_, mapper, callers) ==
    Tail_call(mapper, h[self].val, h, <<"    at OkImpl.mapOr">> \o callers)

OkImpl_mapOrElse(h, self, default_, mapper, callers) ==
    Tail_call(mapper, h[self].val, h, <<"    at OkImpl.mapOrElse">> \o callers)

OkImpl_or(h, self, other) == Return(Ref(self), h, <<>>)

OkImpl_orElse(h, self, other) == Return(Ref(self), h, <<>>)

OkImpl_toOption(h, self) == Some(h[self].val, h)

OkImpl_safeUnwrap(h, self) == Return(h[self].val, h, <<>>)

OkImpl_toString(h, self) ==
    Return(Str("Ok(" \o toString(h[self].val, h) \o ")"), h, <<>>)

(***************************************************************************)
(* r.andThen(m1).andThen(m2)...: each andThen is called on what the one     *)
(* before it returned; a raise ends the expression.                         *)
(***************************************************************************)
RECURSIVE AndThenChain(_, _, _, _, _)
AndThenChain(h, self, mappers, callers, calls) ==
    IF mappers = <<>> THEN Return(Ref(self), h, calls)
    ELSE LET c == IF h[self].cls = "ErrImpl"
                  THEN ErrImpl_andThen(h, self, Head(mappers))
                  ELSE OkImpl_andThen(h, self, Head(mappers), callers)
         IN IF c.type = "throw" THEN [c EXCEPT !.calls = calls \o c.calls]
            ELSE AndThenChain(c.heap, c.value.id, Tail(mappers), callers,
                              calls \o c.calls)

(***************************************************************************)
(* namespace Option.  `options` is the sequence of the inputs' indices.     *)
(***************************************************************************)
RECURSIVE Option_all_loop(_, _, _, _)
Option_all_loop(h, options, i, someOption) ==
    IF i > Len(options) THEN Some(Arr(someOption), h)
    ELSE IF h[options[i]].some
         THEN Option_all_loop(h, options, i + 1, Append(someOption, h[options[i]].val))
         ELSE Return(Ref(options[i]), h, <<>>)

Option_all(h, options) == Option_all_loop(h, options, 1, <<>>)

\* what the comment above any describes: the first Some, else None
Option_any_scanning(h, options) ==
    LET somes == {i \in 1..Len(options) : h[options[i]].some}
    IN IF somes = {} THEN Return(None, h, <<>>)
       ELSE Return(Ref(options[CHOOSE i \in somes : \A j \in somes : i <= j]), h, <<>>)

\* both branches of the loop body return, so only options[1] is looked at
Option_any(h, options) ==
    IF 1 > Len(options) THEN Return(None, h, <<>>)
    ELSE IF h[options[1]].some
         THEN Return(Ref(options[1]), h, <<>>)
         ELSE Return(Ref(options[1]), h, <<>>)

\* value instanceof Some || value === None
IsOption(h, value) ==
    \/ value.k = "object" /\ h[value.id].cls = "SomeImpl"
    \/ value = None

Option_isOption(h, value) == Return(Bool(IsOption(h, value)), h, <<>>)

Option_of(h, value) ==
    IF value = Null \/ value = Undefined THEN Return(None, h, <<>>) ELSE Some(value, h)

(***************************************************************************)
(* namespace Result.                                                        *)
(***************************************************************************)
RECURSIVE Result_all_loop(_, _, _, _)
Result_all_loop(h, results, i, okResult) ==
    IF i > Len(results) THEN Ok(Arr(okResult), h)
    ELSE IF h[results[i]].ok
         THEN Result_all_loop(h, results, i + 1, Append(okResult, h[results[i]].val))
         ELSE Return(Ref(results[i]), h, <<>>)

\* a slip: the loop goes on after an Err, and the last Err is returned
Result_all_lastErr(h, results) ==
    LET errs == {i \in 1..Len(results) : ~h[results[i]].ok}
    IN IF errs = {}
       THEN Ok(Arr([i \in 1..Len(results) |-> h[results[i]].val]), h)
       ELSE Return(Ref(results[CHOOSE i \in errs : \A j \in errs : i >= j]), h, <<>>)

Result_all(h, results) == Result_all_loop(h, results, 1, <<>>)

RECURSIVE Result_any_loop(_, _, _, _, _)
Result_any_loop(h, results, i, errResult, callers) ==
    IF i > Len(results) THEN NewErr(Arr(errResult), h, callers)
    ELSE IF h[results[i]].ok
         THEN Return(Ref(results[i]), h, <<>>)
         ELSE Result_any_loop(h, results, i + 1,
                              Append(errResult, h[results[i]].val), callers)

\* a slip: the errors are collected with unshift, in reverse order
Result_any_reversed(h, results, callers) ==
    LET oks == {i \in 1..Len(results) : h[results[i]].ok}
        n == Len(results)
    IN IF oks = {}
       THEN NewErr(Arr([i \in 1..n |-> h[results[n + 1 - i]].val]), h,
                   <<"    at Object.any">> \o callers)
       ELSE Return(Ref(results[CHOOSE i \in oks : \A j \in oks : i <= j]), h, <<>>)

Result_any(h, results, callers) ==
    Result_any_loop(h, results, 1, <<>>, <<"    at Object.any">> \o callers)

\* the operations handed to wrap
WrapOps == {"two", "throws"}

Result_wrap(h, op, callers) ==
    LET here == <<"    at Object.wrap">> \o callers
        c == Tail_call(op, Undefined, h, here)
    IN IF c.type = "throw"
       THEN [NewErr(c.value, c.heap, here) EXCEPT !.calls = c.calls]
       ELSE [Ok(c.value, c.heap) EXCEPT !.calls = c.calls]

\* val instanceof Err || val instanceof Ok
IsResult(h, val) == val.k = "object" /\ h[val.id].cls \in {"ErrImpl", "OkImpl"}

Result_isResult(h, val) == Return(Bool(IsResult(h, val)), h, <<>>)

(***************************************************************************)
(* Promises, as far as wrapAsync uses them.  promises[1] is the promise the *)
(* operation returned, the last promise is the one wrapAsync returned.  A   *)
(* promise with `resolver` is one whose creator can still settle it.        *)
(***************************************************************************)
Pending(resolver) == [state |-> "pending", value |-> Undefined, resolver |-> resolver]
Fulfilled(v) == [state |-> "fulfilled", value |-> v, resolver |-> FALSE]
Rejected(v) == [state |-> "rejected", value |-> v, resolver |-> FALSE]

\* the reaction p.then(onFulfilled) or p.catch(onRejected), p = promises[of],
\* whose outcome settles promises[to]
Reaction(kind, of, to) == [kind |-> kind, of |-> of, to |-> to]

\* the asynchronous operations handed to wrapAsync: one that raises before
\* returning a promise, and ones returning a promise that is already
\* fulfilled, already rejected, settled later by its creator, or never settled
AsyncOps == {"throws", "fulfilled", "rejected", "later", "never"}

\* what op() does: a raise, or the promise returned
InvokeAsync(op, v) ==
    CASE op = "throws" -> [type |-> "throw", value |-> Thrown]
      [] op = "fulfilled" -> [type |-> "return", value |-> Fulfilled(v)]
      [] op = "rejected" -> [type |-> "return", value |-> Rejected(Thrown)]
      [] op = "later" -> [type |-> "return", value |-> Pending(TRUE)]
      [] op = "never" -> [type |-> "return", value |-> Pending(FALSE)]

\* a reference to promises[id]
PromiseRef(id) == [k |-> "promise", id |-> id]

\* wrapAsync(op): the completion, the promises and the reaction jobs it leaves
Result_wrapAsync(h, op, v, callers) ==
    LET r == InvokeAsync(op, v)
    IN IF r.type = "throw"
       THEN LET e == NewErr(r.value, h, <<"    at Object.wrapAsync">> \o callers)
            IN [completion |-> Return(PromiseRef(1), e.heap, Called(op, Undefined, r)),
                promises |-> <<Fulfilled(e.value)>>,
                jobs |-> <<>>]
       ELSE [completion |-> Return(PromiseRef(3), h,
                                   Called(op, Undefined,
                                          [type |-> "return", value |-> PromiseRef(1)])),
             promises |-> <<r.value, Pending(FALSE), Pending(FALSE)>>,
             jobs |-> IF r.value.state = "pending" THEN <<>>
                      ELSE <<Reaction("then", 1, 2)>>]

\* a slip: a rejection of promises[1] is swallowed by a handler that returns
\* nothing, promises[2] is fulfilled with undefined
ThenJob_swallowing(h, ps) ==
    IF ps[1].state = "fulfilled"
    THEN LET o == Ok(ps[1].value, h)
         IN [heap |-> o.heap, promises |-> [ps EXCEPT ![2] = Fulfilled(o.value)]]
    ELSE [heap |-> h, promises |-> [ps EXCEPT ![2] = Fulfilled(Undefined)]]

\* the reaction of  .then((val) => new Ok(val))  to promises[1]
ThenJob(h, ps) ==
    IF ps[1].state = "fulfilled"
    THEN LET o == Ok(ps[1].value, h)
         IN [heap |-> o.heap, promises |-> [ps EXCEPT ![2] = Fulfilled(o.value)]]
    ELSE [heap |-> h, promises |-> [ps EXCEPT ![2] = Rejected(ps[1].value)]]

\* a slip: the chain ends without .catch, a rejection passes through
CatchJob_passing(h, ps) == [heap |-> h, promises |-> [ps EXCEPT ![3] = ps[2]]]

\* the reaction of  .catch((e) => new Err(e))  to promises[2]
CatchJob(h, ps) ==
    IF ps[2].state = "rejected"
    THEN LET e == NewErr(ps[2].value, h, <<"    at <anonymous>">>)
         IN [heap |-> e.heap, promises |-> [ps EXCEPT ![3] = Fulfilled(e.value)]]
    ELSE [heap |-> h, promises |-> [ps EXCEPT ![3] = Fulfilled(ps[2].value)]]

\* the promise wrapAsync returned
Returned(ps) == ps[Len(ps)]

InFlight == promises # <<>> /\ Returned(promises).state = "pending"

\* the heap slots the jobs of the wrapAsync in flight will still need
Reserved ==
    IF InFlight /\ promises[2].state # "fulfilled" THEN 1 ELSE 0

(***************************************************************************)
(* The state machine.                                                       *)
(***************************************************************************)
NoCall == [op |-> "none"]

Init ==
    /\ heap = InitHeap
    /\ kept = Len(InitHeap)
    /\ last = NoCall
    /\ promises = <<>>
    /\ jobs = <<>>

\* the caller is between two calls
Ready == last = NoCall

\* the caller makes the call `op` on `self` (0: a static helper) with `args`,
\* and the call completes as c
Call(op, self, args, c) ==
    /\ heap' = c.heap
    /\ last' = [op |-> op, self |-> self, args |-> args,
                type |-> c.type, value |-> c.value, calls |-> c.calls]
    /\ UNCHANGED <<kept, promises, jobs>>

\* the caller is done with the completion of its last call, and keeps the
\* instances the call constructed
Continue ==
    /\ ~Ready
    /\ Len(heap) + Reserved <= HeapCap
    /\ last' = NoCall
    /\ kept' = Len(heap)
    /\ UNCHANGED <<heap, promises, jobs>>

\* the caller is done with the completion of its last call, and drops the
\* instances the call constructed: they are reclaimed
DropResult ==
    /\ ~Ready
    /\ Len(heap) > kept
    /\ last' = NoCall
    /\ heap' = SubSeq(heap, 1, kept)
    /\ UNCHANGED <<kept, promises, jobs>>

IsNone(id) == heap[id].cls = "NoneImpl"
IsErr(id) == heap[id].cls = "ErrImpl"

\* sequences over S of length at most n
SeqsUpTo(S, n) == UNION {[1..k -> S] : k \in 0..n}

(***************************************************************************)
(* Construction by the caller.                                              *)
(***************************************************************************)
Do_Some ==
    /\ Ready
    /\ \E val \in InputVals : Call("Some", 0, <<val>>, Some(val, heap))

Do_Ok ==
    /\ Ready
    /\ \E val \in InputVals : Call("Ok", 0, <<val>>, Ok(val, heap))

Do_Err ==
    /\ Ready
    /\ \E val \in InputVals, site \in Sites, withNew \in BOOLEAN :
           Call(IF withNew THEN "new Err" ELSE "Err", 0, <<val>>,
                IF withNew THEN NewErr(val, heap, <<site>>) ELSE Err(val, heap, <<site>>))

(***************************************************************************)
(* Calls of an Option's methods: the receiver's class picks the method.     *)
(***************************************************************************)
Option_iterator ==
    /\ Ready
    /\ \E self \in OptionIds(heap) :
           Call("iterator", self, <<>>,
                IF IsNone(self) THEN NoneImpl_iterator(heap, self)
                ELSE SomeImpl_iterator(heap, self))

Option_unwrapOr ==
    /\ Ready
    /\ \E self \in OptionIds(heap), val \in InputVals :
           Call("unwrapOr", self, <<val>>,
                IF IsNone(self) THEN NoneImpl_unwrapOr(heap, self, val)
                ELSE SomeImpl_unwrapOr(heap, self, val))

Option_expect ==
    /\ Ready
    /\ \E self \in OptionIds(heap), msg \in Msgs :
           Call("expect", self, <<Str(msg)>>,
                IF IsNone(self) THEN NoneImpl_expect(heap, self, msg)
                ELSE SomeImpl_expect(heap, self, msg))

Option_unwrap ==
    /\ Ready
    /\ \E self \in OptionIds(heap) :
           Call("unwrap", self, <<>>,
                IF IsNone(self) THEN NoneImpl_unwrap(heap, self)
                ELSE SomeImpl_unwrap(heap, self))

Option_map ==
    /\ Ready
    /\ \E self \in OptionIds(heap), mapper \in Mappers, site \in Sites :
           Call("map", self, <<Fn(mapper)>>,
                IF IsNone(self) THEN NoneImpl_map(heap, self, mapper)
                ELSE SomeImpl_map(heap, self, mapper, <<site>>))

Option_mapOr ==
    /\ Ready
    /\ \E self \in OptionIds(heap), default_ \in InputVals, mapper \in Mappers,
          site \in Sites :
           Call("mapOr", self, <<default_, Fn(mapper)>>,
                IF IsNone(self) THEN NoneImpl_mapOr(heap, self, default_, mapper)
                ELSE SomeImpl_mapOr(heap, self, default_, mapper, <<site>>))

Option_mapOrElse ==
    /\ Ready
    /\ \E self \in OptionIds(heap), default_ \in DefaultFns, mapper \in Mappers,
          site \in Sites :
           Call("mapOrElse", self, <<Fn(default_), Fn(mapper)>>,
                IF IsNone(self)
                THEN NoneImpl_mapOrElse(heap, self, default_, mapper, <<site>>)
                ELSE SomeImpl_mapOrElse(heap, self, default_, mapper, <<site>>))

Option_or ==
    /\ Ready
    /\ \E self \in OptionIds(heap), other \in OptionIds(heap) :
           Call("or", self, <<Ref(other)>>,
                IF IsNone(self) THEN NoneImpl_or(heap, self, Ref(other))
                ELSE SomeImpl_or(heap, self, Ref(other)))

Option_orElse ==
    /\ Ready
    /\ \E self \in OptionIds(heap), other \in OptionMappers, site \in Sites :
           Call("orElse", self, <<Fn(other)>>,
                IF IsNone(self) THEN NoneImpl_orElse(heap, self, other, <<site>>)
                ELSE SomeImpl_orElse(heap, self, other, <<site>>))

Option_andThen ==
    /\ Ready
    /\ \E self \in OptionIds(heap), mapper \in OptionMappers, site \in Sites :
           Call("andThen", self, <<Fn(mapper)>>,
                IF IsNone(self) THEN NoneImpl_andThen(heap, self, mapper)
                ELSE SomeImpl_andThen(heap, self, mapper, <<site>>))

Option_toResult ==
    /\ Ready
    /\ \E self \in OptionIds(heap), error \in InputVals, site \in Sites :
           Call("toResult", self, <<error>>,
                IF IsNone(self) THEN NoneImpl_toResult(heap, self, error, <<site>>)
                ELSE SomeImpl_toResult(heap, self, error, <<site>>))

\* o.toResult(error).toOption()
Option_toResult_toOption ==
    /\ Ready
    /\ \E self \in OptionIds(heap), error \in InputVals, site \in Sites :
           LET r == IF IsNone(self)
                    THEN NoneImpl_toResult(heap, self, error, <<site>>)
                    ELSE SomeImpl_toResult(heap, self, error, <<site>>)
           IN Call("toResult.toOption", self, <<error>>,
                   IF r.heap[r.value.id].cls = "ErrImpl"
                   THEN ErrImpl_toOption(r.heap, r.value.id)
                   ELSE OkImpl_toOption(r.heap, r.value.id))

\* safeUnwrap exists on Some only
Option_safeUnwrap ==
    /\ Ready
    /\ \E self \in OptionIds(heap) :
           /\ ~IsNone(self)
           /\ Call("safeUnwrap", self, <<>>, SomeImpl_safeUnwrap(heap, self))

Option_toString ==
    /\ Ready
    /\ \E self \in OptionIds(heap) :
           Call("toString", self, <<>>,
                IF IsNone(self) THEN NoneImpl_toString(heap, self)
                ELSE SomeImpl_toString(heap, self))

(***************************************************************************)
(* Calls of a Result's methods.                                             *)
(***************************************************************************)
Result_iterator ==
    /\ Ready
    /\ \E self \in ResultIds(heap) :
           Call("iterator", self, <<>>,
                IF IsErr(self) THEN ErrImpl_iterator(heap, self)
                ELSE OkImpl_iterator(heap, self))

Result_else ==
    /\ Ready
    /\ \E self \in ResultIds(heap), val \in InputVals :
           Call("else", self, <<val>>,
                IF IsErr(self) THEN ErrImpl_else(heap, self, val)
                ELSE OkImpl_else(heap, self, val))

Result_unwrapOr ==
    /\ Ready
    /\ \E self \in ResultIds(heap), val \in InputVals :
           Call("unwrapOr", self, <<val>>,
                IF IsErr(self) THEN ErrImpl_unwrapOr(heap, self, val)
                ELSE OkImpl_unwrapOr(heap, self, val))

Result_expect ==
    /\ Ready
    /\ \E self \in ResultIds(heap), msg \in Msgs, site \in Sites :
           Call("expect", self, <<Str(msg)>>,
                IF IsErr(self) THEN ErrImpl_expect(heap, self, msg, <<site>>)
                ELSE OkImpl_expect(heap, self, msg))

Result_expectErr ==
    /\ Ready
    /\ \E self \in ResultIds(heap), msg \in Msgs :
           Call("expectErr", self, <<Str(msg)>>,
                IF IsErr(self) THEN ErrImpl_expectErr(heap, self, msg)
                ELSE OkImpl_expectErr(heap, self, msg))

Result_unwrap ==
    /\ Ready
    /\ \E self \in ResultIds(heap), site \in Sites :
           Call("unwrap", self, <<>>,
                IF IsErr(self) THEN ErrImpl_unwrap(heap, self, <<site>>)
                ELSE OkImpl_unwrap(heap, self))

Result_unwrapErr ==
    /\ Ready
    /\ \E self \in ResultIds(heap) :
           Call("unwrapErr", self, <<>>,
                IF IsErr(self) THEN ErrImpl_unwrapErr(heap, self)
                ELSE OkImpl_unwrapErr(heap, self))

Result_map ==
    /\ Ready
    /\ \E self \in ResultIds(heap), mapper \in Mappers, site \in Sites :
           Call("map", self, <<Fn(mapper)>>,
                IF IsErr(self) THEN ErrImpl_map(heap, self, mapper)
                ELSE OkImpl_map(heap, self, mapper, <<site>>))

Result_andThen ==
    /\ Ready
    /\ \E self \in ResultIds(heap), mapper \in ResultMappers, site \in Sites :
           Call("andThen", self, <<Fn(mapper)>>,
                IF IsErr(self) THEN ErrImpl_andThen(heap, self, mapper)
                ELSE OkImpl_andThen(heap, self, mapper, <<site>>))

\* a chain of two or more andThen calls that starts from an Ok
Result_andThenChain ==
    /\ Ready
    /\ \E self \in ResultIds(heap), site \in Sites,
          mappers \in UNION {[1..n -> ResultMappers] : n \in 2..MaxChain} :
           /\ ~IsErr(self)
           /\ Call("andThen chain", self, [i \in DOMAIN mappers |-> Fn(mappers[i])],
                   AndThenChain(heap, self, mappers, <<site>>, <<>>))

Result_mapErr ==
    /\ Ready
    /\ \E self \in ResultIds(heap), mapper \in Mappers, site \in Sites :
           Call("mapErr", self, <<Fn(mapper)>>,
                IF IsErr(self) THEN ErrImpl_mapErr(heap, self, mapper, <<site>>)
                ELSE OkImpl_mapErr(heap, self, mapper))

Result_mapOr ==
    /\ Ready
    /\ \E self \in ResultIds(heap), default_ \in InputVals, mapper \in Mappers,
          site \in Sites :
           Call("mapOr", self, <<default_, Fn(mapper)>>,
                IF IsErr(self) THEN ErrImpl_mapOr(heap, self, default_, mapper)
                ELSE OkImpl_mapOr(heap, self, default_, mapper, <<site>>))

Result_mapOrElse ==
    /\ Ready
    /\ \E self \in ResultIds(heap), default_ \in DefaultFns, mapper \in Mappers,
          site \in Sites :
           Call("mapOrElse", self, <<Fn(default_), Fn(mapper)>>,
                IF IsErr(self)
                THEN ErrImpl_mapOrElse(heap, self, default_, mapper, <<site>>)
                ELSE OkImpl_mapOrElse(heap, self, default_, mapper, <<site>>))

Result_or ==
    /\ Ready
    /\ \E self \in ResultIds(heap), other \in ResultIds(heap) :
           Call("or", self, <<Ref(other)>>,
                IF IsErr(self) THEN ErrImpl_or(heap, self, Ref(other))
                ELSE OkImpl_or(heap, self, Ref(other)))

Result_orElse ==
    /\ Ready
    /\ \E self \in ResultIds(heap), other \in ResultMappers, site \in Sites :
           Call("orElse", self, <<Fn(other)>>,
                IF IsErr(self) THEN ErrImpl_orElse(heap, self, other, <<site>>)
                ELSE OkImpl_orElse(heap, self, other))

Result_toOption ==
    /\ Ready
    /\ \E self \in ResultIds(heap) :
           Call("toOption", self, <<>>,
                IF IsErr(self) THEN ErrImpl_toOption(heap, self)
                ELSE OkImpl_toOption(heap, self))

\* r.toOption().toResult(error)
Result_toOption_toResult ==
    /\ Ready
    /\ \E self \in ResultIds(heap), error \in InputVals, site \in Sites :
           LET o == IF IsErr(self) THEN ErrImpl_toOption(heap, self)
                    ELSE OkImpl_toOption(heap, self)
           IN Call("toOption.toResult", self, <<error>>,
                   IF o.heap[o.value.id].cls = "NoneImpl"
                   THEN NoneImpl_toResult(o.heap, o.value.id, error, <<site>>)
                   ELSE SomeImpl_toResult(o.heap, o.value.id, error, <<site>>))

\* safeUnwrap exists on Ok only
Result_safeUnwrap ==
    /\ Ready
    /\ \E self \in ResultIds(heap) :
           /\ ~IsErr(self)
           /\ Call("safeUnwrap", self, <<>>, OkImpl_safeUnwrap(heap, self))

Result_toString ==
    /\ Ready
    /\ \E self \in ResultIds(heap) :
           Call("toString", self, <<>>,
                IF IsErr(self) THEN ErrImpl_toString(heap, self)
                ELSE OkImpl_toString(heap, self))

\* the stack getter exists on Err only
Result_stack ==
    /\ Ready
    /\ \E self \in ResultIds(heap) :
           /\ IsErr(self)
           /\ Call("stack", self, <<>>, ErrImpl_get_stack(heap, self))

(***************************************************************************)
(* Calls of the static helpers.                                             *)
(***************************************************************************)
RefsOf(ids) == [i \in DOMAIN ids |-> Ref(ids[i])]

\* the values handed to isOption, isResult and of
ProbeVals == InputVals \cup {Null, Undefined} \cup {Ref(i) : i \in 1..Len(heap)}

Do_Option_all ==
    /\ Ready
    /\ \E options \in SeqsUpTo(OptionIds(heap), MaxArgs) :
           Call("Option.all", 0, RefsOf(options), Option_all(heap, options))

Do_Option_any ==
    /\ Ready
    /\ \E options \in SeqsUpTo(OptionIds(heap), MaxArgs) :
           Call("Option.any", 0, RefsOf(options), Option_any(heap, options))

Do_Option_isOption ==
    /\ Ready
    /\ \E value \in ProbeVals :
           Call("Option.isOption", 0, <<value>>, Option_isOption(heap, value))

Do_Option_of ==
    /\ Ready
    /\ \E value \in InputVals \cup {Null, Undefined} :
           Call("Option.of", 0, <<value>>, Option_of(heap, value))

Do_Result_all ==
    /\ Ready
    /\ \E results \in SeqsUpTo(ResultIds(heap), MaxArgs) :
           Call("Result.all", 0, RefsOf(results), Result_all(heap, results))

Do_Result_any ==
    /\ Ready
    /\ \E results \in SeqsUpTo(ResultIds(heap), MaxArgs), site \in Sites :
           Call("Result.any", 0, RefsOf(results), Result_any(heap, results, <<site>>))

Do_Result_wrap ==
    /\ Ready
    /\ \E op \in WrapOps, site \in Sites :
           Call("Result.wrap", 0, <<Fn(op)>>, Result_wrap(heap, op, <<site>>))

Do_Result_isResult ==
    /\ Ready
    /\ \E val \in ProbeVals :
           Call("Result.isResult", 0, <<val>>, Result_isResult(heap, val))

\* wrapAsync is called once the promise of the previous call is settled; the
\* promise it returns holds on to the instance it will resolve to
Do_Result_wrapAsync ==
    /\ Ready
    /\ \E op \in AsyncOps, v \in InputVals, site \in Sites :
           LET r == Result_wrapAsync(heap, op, v, <<site>>)
           IN /\ ~InFlight
              /\ jobs = <<>>
              /\ Len(heap) + 1 <= HeapCap
              /\ heap' = r.completion.heap
              /\ kept' = Len(r.completion.heap)
              /\ last' = [op |-> "Result.wrapAsync", self |-> 0, args |-> <<Fn(op)>>,
                          type |-> r.completion.type, value |-> r.completion.value,
                          calls |-> r.completion.calls]
              /\ promises' = r.promises
              /\ jobs' = r.jobs

(***************************************************************************)
(* The environment of wrapAsync: the operation's creator settles its        *)
(* promise, and the event loop runs the reaction jobs in order, between     *)
(* the caller's calls.                                                      *)
(***************************************************************************)
SettleOp ==
    /\ promises # <<>>
    /\ promises[1].state = "pending"
    /\ Ready
    /\ promises[1].resolver
    /\ \E p \in {Fulfilled(v) : v \in InputVals} \cup {Rejected(Thrown)} :
           promises' = [promises EXCEPT ![1] = p]
    /\ jobs' = Append(jobs, Reaction("then", 1, 2))
    /\ UNCHANGED <<heap, kept, last>>

RunJob ==
    /\ Ready
    /\ jobs # <<>>
    /\ LET job == Head(jobs)
           r == IF job.kind = "then" THEN ThenJob(heap, promises)
                ELSE CatchJob(heap, promises)
       IN /\ heap' = r.heap
          /\ kept' = Len(r.heap)
          /\ promises' = r.promises
          /\ jobs' = IF job.kind = "then"
                     THEN Append(Tail(jobs), Reaction("catch", 2, 3))
                     ELSE Tail(jobs)
    /\ UNCHANGED last

Next ==
    \/ Continue \/ DropResult
    \/ Do_Some \/ Do_Ok \/ Do_Err
    \/ Option_iterator \/ Option_unwrapOr \/ Option_expect \/ Option_unwrap
    \/ Option_map \/ Option_mapOr \/ Option_mapOrElse \/ Option_or
    \/ Option_orElse \/ Option_andThen \/ Option_toResult
    \/ Option_toResult_toOption \/ Option_safeUnwrap
    \/ Option_toString
    \/ Result_iterator \/ Result_else \/ Result_unwrapOr \/ Result_expect
    \/ Result_expectErr \/ Result_unwrap \/ Result_unwrapErr \/ Result_map
    \/ Result_andThen \/ Result_andThenChain \/ Result_mapErr \/ Result_mapOr \/ Result_mapOrElse
    \/ Result_or \/ Result_orElse \/ Result_toOption
    \/ Result_toOption_toResult \/ Result_safeUnwrap
    \/ Result_toString \/ Result_stack
    \/ Do_Option_all \/ Do_Option_any \/ Do_Option_isOption \/ Do_Option_of
    \/ Do_Result_all \/ Do_Result_any \/ Do_Result_wrap \/ Do_Result_isResult
    \/ Do_Result_wrapAsync
    \/ SettleOp \/ RunJob

Spec == Init /\ [][Next]_vars

\* The asynchronous boundary with a caller that, besides wrapAsync, only
\* constructs Results and wraps synchronous operations.
AsyncNext ==
    \/ Continue \/ DropResult
    \/ Do_Ok \/ Do_Err \/ Do_Result_wrap
    \/ Do_Result_wrapAsync
    \/ SettleOp \/ RunJob

\* The caller's synchronous code always ends, and whenever it has ended the
\* event loop runs the queued jobs: a job that is queued again and again when
\* the caller is between calls is run.  Likewise a promise whose creator can
\* settle it is settled.  Nothing is assumed of a promise nobody can settle.
AsyncSpec ==
    /\ Init /\ [][AsyncNext]_vars
    /\ WF_vars(Continue \/ DropResult)
    /\ SF_vars(RunJob)
    /\ SF_vars(SettleOp)

(***************************************************************************)
(* Properties.                                                              *)
(***************************************************************************)
\* the last call was an unsafe accessor on the variant it fails on
UnsafeMiss ==
    /\ ~Ready
    /\ last.self # 0
    /\ \/ /\ last.op \in {"unwrap", "expect"}
          /\ heap[last.self].cls \in {"NoneImpl", "ErrImpl"}
       \/ /\ last.op \in {"unwrapErr", "expectErr"}
          /\ heap[last.self].cls = "OkImpl"

\* the last callback the last call invoked raised
CallbackRaised ==
    /\ ~Ready
    /\ last.calls # <<>>
    /\ last.calls[Len(last.calls)].type = "throw"

\* C1 as stated: a call raises only if it is unwrap / expect on None or Err,
\* or unwrapErr / expectErr on Ok; every other call returns a value.
C1_OnlyUnsafeAccessorsRaise ==
    (~Ready /\ last.type = "throw") => UnsafeMiss

\* C1 amended: a call raises exactly when it is an unsafe accessor on the
\* variant it fails on, or when a callback it invoked raised outside
\* wrap / wrapAsync; in the second case the value the callback raised is
\* the value the call raises.
C1_RaisesOnlyUnsafeOrCallback ==
    ~Ready =>
        /\ (last.type = "throw") <=>
               \/ UnsafeMiss
               \/ /\ CallbackRaised
                  /\ last.op \notin {"Result.wrap", "Result.wrapAsync"}
        /\ (last.type = "throw" /\ ~UnsafeMiss) =>
               last.value = last.calls[Len(last.calls)].value

\* a callback raised inside andThen on a Some or an Ok, and andThen raised
C1_Witness ==
    /\ ~Ready
    /\ last.op = "andThen"
    /\ last.type = "throw"
    /\ CallbackRaised

\* C2 as stated: every failing unsafe accessor fails with an error of the
\* dedicated kind UnwrapError.
C2_FailsWithUnwrapError ==
    UnsafeMiss =>
        /\ last.type = "throw"
        /\ last.value.k = "error"
        /\ last.value.ctor = "UnwrapError"

\* C2 amended: every failing unsafe accessor raises, and what it raises is an
\* object made by the built-in Error constructor, whatever the wrapped value
\* and the message.
C2_FailsWithError ==
    UnsafeMiss =>
        /\ last.type = "throw"
        /\ last.value.k = "error"
        /\ last.value.ctor = "Error"

\* expectErr was called on an Ok that wraps a number
C2_Witness ==
    /\ UnsafeMiss
    /\ last.op = "expectErr"
    /\ heap[last.self].val \in InputVals

\* the least element of a non-empty set of numbers
Least(S) == CHOOSE i \in S : \A j \in S : i <= j

\* the inputs of the last call whose instance is of one of the classes
ArgsOfClass(classes) ==
    {i \in 1..Len(last.args) : heap[last.args[i].id].cls \in classes}

\* the values the inputs of the last call wrap, in input order
ArgVals == Arr([i \in 1..Len(last.args) |-> heap[last.args[i].id].val])

\* the last call returned without constructing an instance
ReturnedExisting(v) ==
    /\ last.type = "return"
    /\ last.value = v
    /\ Len(heap) = kept

\* the last call returned a new instance of class cls that wraps val
ReturnedNew(cls, val) ==
    /\ last.type = "return"
    /\ Len(heap) = kept + 1
    /\ last.value = Ref(kept + 1)
    /\ heap[kept + 1].cls = cls
    /\ heap[kept + 1].val = val

\* C3, the comment above Option.any: any returns the first Some among its
\* inputs, in input order, even when Nones precede it, and None only if no
\* input is Some.
C3_AnyReturnsFirstSome ==
    (~Ready /\ last.op = "Option.any") =>
        LET somes == ArgsOfClass({"SomeImpl"})
        IN IF somes = {} THEN ReturnedExisting(None)
           ELSE ReturnedExisting(last.args[Least(somes)])

C5_ResultAny ==
    (~Ready /\ last.op = "Result.any") =>
        LET oks == ArgsOfClass({"OkImpl"})
        IN IF oks = {} THEN ReturnedNew("ErrImpl", ArgVals)
           ELSE ReturnedExisting(last.args[Least(oks)])

\* Result.any of two Errs with different errors returned the Err of both
C5_Witness ==
    /\ ~Ready
    /\ last.op = "Result.any"
    /\ Len(last.args) = 2
    /\ ArgsOfClass({"OkImpl"}) = {}
    /\ ArgVals.xs[1] # ArgVals.xs[2]
    /\ heap[last.value.id].val = ArgVals

\* C6: Result.all returns the leftmost Err input itself if there is one and
\* otherwise a new Ok of the tuple of the inputs' values in input order;
\* Option.all likewise with None and Some.
C6_All ==
    /\ (~Ready /\ last.op = "Result.all") =>
           LET errs == ArgsOfClass({"ErrImpl"})
           IN IF errs = {} THEN ReturnedNew("OkImpl", ArgVals)
              ELSE ReturnedExisting(last.args[Least(errs)])
    /\ (~Ready /\ last.op = "Option.all") =>
           LET nones == ArgsOfClass({"NoneImpl"})
           IN IF nones = {} THEN ReturnedNew("SomeImpl", ArgVals)
              ELSE ReturnedExisting(last.args[Least(nones)])

\* Result.all of two different Errs returned the first
C6_Witness ==
    /\ ~Ready
    /\ last.op = "Result.all"
    /\ Len(last.args) = 2
    /\ ArgsOfClass({"ErrImpl"}) = {1, 2}
    /\ last.args[1] # last.args[2]
    /\ last.value = last.args[1]

\* the instance a settled promise holds, if it holds one
Held(p) == heap[p.value.id]

\* C7: wrap returns a new Ok of what the operation returned or a new Err of
\* what it raised, and never raises; wrapAsync returns a promise that is never
\* rejected and that resolves to Ok(v) when the operation's promise fulfils
\* with v, and to Err(x) when it rejects with x or the operation raised x.
C7_WrapConvertsFailure ==
    /\ (~Ready /\ last.op = "Result.wrap") =>
           /\ Len(last.calls) = 1
           /\ ReturnedNew(IF last.calls[1].type = "return" THEN "OkImpl" ELSE "ErrImpl",
                          last.calls[1].value)
    /\ (~Ready /\ last.op = "Result.wrapAsync") =>
           /\ last.type = "return"
           /\ last.value = PromiseRef(Len(promises))
           /\ last.calls[1].type = "throw" =>
                  /\ Returned(promises).state = "fulfilled"
                  /\ Held(Returned(promises)).cls = "ErrImpl"
                  /\ Held(Returned(promises)).val = last.calls[1].value
    /\ promises # <<>> => Returned(promises).state # "rejected"
    /\ (Len(promises) = 3 /\ Returned(promises).state = "fulfilled") =>
           /\ promises[1].state # "pending"
           /\ Returned(promises).value.k = "object"
           /\ Held(Returned(promises)).cls =
                  IF promises[1].state = "fulfilled" THEN "OkImpl" ELSE "ErrImpl"
           /\ Held(Returned(promises)).val = promises[1].value

\* the operation's promise was rejected and wrapAsync's promise is resolved
C7_Witness ==
    /\ Len(promises) = 3
    /\ promises[1].state = "rejected"
    /\ Returned(promises).state = "fulfilled"
    /\ Held(Returned(promises)).val = Thrown

\* C8 as stated: after wrapAsync is called, the promise it returned is
\* eventually resolved with a Result, whatever the operation.
C8_AlwaysSettles ==
    InFlight ~> (promises # <<>> /\ Returned(promises).state = "fulfilled")

\* C8 amended: once the operation's promise is settled, the promise wrapAsync
\* returned is eventually resolved with a Result; while the operation's promise
\* is pending, so is the promise wrapAsync returned.
C8_SettlesOnceOperationSettles ==
    /\ (InFlight /\ promises[1].state # "pending")
           ~> (/\ promises # <<>>
               /\ Returned(promises).state = "fulfilled"
               /\ Returned(promises).value.k = "object"
               /\ Held(Returned(promises)).cls \in {"OkImpl", "ErrImpl"})
    /\ [](Len(promises) = 3 /\ promises[1].state = "pending"
              => Returned(promises).state = "pending")

\* an operation's promise was settled later, and wrapAsync's promise resolved
C8_Witness ==
    /\ Len(promises) = 3
    /\ promises[1].state = "fulfilled"
    /\ Returned(promises).state = "fulfilled"
    /\ Held(Returned(promises)).cls = "OkImpl"

\* C9: every Option has exactly one of some / none true and every Result has
\* exactly one of ok / err true, the flag that matches its variant.
C9_FlagsComplementary ==
    \A i \in 1..Len(heap) :
        LET o == heap[i]
        IN /\ o.cls \in {"NoneImpl", "SomeImpl", "OkImpl", "ErrImpl"}
           /\ o.cls \in {"NoneImpl", "SomeImpl"} =>
                  /\ o.some # o.none
                  /\ o.some <=> o.cls = "SomeImpl"
           /\ o.cls \in {"OkImpl", "ErrImpl"} =>
                  /\ o.ok # o.err
                  /\ o.ok <=> o.cls = "OkImpl"

\* a conversion made an Err while the caller keeps a Some it constructed
C9_Witness ==
    /\ ~Ready
    /\ last.op = "toResult"
    /\ Len(heap) = Len(InitHeap) + 2
    /\ heap[Len(heap)].cls = "ErrImpl"
    /\ heap[Len(heap) - 1].cls = "SomeImpl"

\* C10: a call, whether it returns or raises, and a reaction job leave every
\* existing instance as it was: its val, its flags, an Err's provenance text.
C10_InstancesImmutable ==
    [][Ready => \A i \in 1..Len(heap) : Len(heap') >= i /\ heap'[i] = heap[i]]_vars

\* mapErr made a new Err from an Err the caller had constructed
C10_Witness ==
    /\ ~Ready
    /\ last.op = "mapErr"
    /\ last.self > Len(InitHeap)
    /\ last.type = "return"
    /\ last.value # Ref(last.self)
    /\ heap[last.value.id].val # heap[last.self].val

\* C11: the only absent Option is the singleton None, as module load left it,
\* and every operation that produces an absent Option returns that instance
\* without constructing one: map and andThen on None, toOption on an Err,
\* Option.of(null) and Option.of(undefined), Option.any of no inputs,
\* Option.all with a None among its inputs, Option.any with a None first.
C11_SingleNone ==
    /\ \A i \in 1..Len(heap) : (heap[i].cls = "NoneImpl") <=> (i = NoneId)
    /\ heap[NoneId] = NoneImpl_new
    /\ ~Ready =>
        /\ (last.op \in {"map", "andThen"} /\ last.self = NoneId)
               => ReturnedExisting(None)
        /\ (last.op = "toOption" /\ heap[last.self].cls = "ErrImpl")
               => ReturnedExisting(None)
        /\ (last.op = "Option.of" /\ last.args[1] \in {Null, Undefined})
               => ReturnedExisting(None)
        /\ (last.op = "Option.any" /\ last.args = <<>>)
               => ReturnedExisting(None)
        /\ (last.op = "Option.all" /\ ArgsOfClass({"NoneImpl"}) # {})
               => ReturnedExisting(None)
        /\ (last.op = "Option.any" /\ last.args # <<>> /\ last.args[1] = None)
               => ReturnedExisting(None)

\* toOption was called on an Err the caller constructed, and returned None
C11_Witness ==
    /\ ~Ready
    /\ last.op = "toOption"
    /\ last.self > Len(InitHeap)
    /\ heap[last.self].cls = "ErrImpl"
    /\ last.value = None

\* the last call invoked no callback
NoCalls == last.calls = <<>>

\* the last call invoked exactly one callback: fn, with the argument arg
OneCall(fn, arg) ==
    /\ Len(last.calls) = 1
    /\ last.calls[1].fn = fn.name
    /\ last.calls[1].arg = arg

\* the j-th callback of the last call returned an instance of class cls
CallReturned(j, cls) ==
    /\ last.calls[j].type = "return"
    /\ last.calls[j].value.k = "object"
    /\ heap[last.calls[j].value.id].cls = cls

\* C12: a method invokes its callback only on the variant the callback
\* applies to, and then exactly once, with the wrapped value (a fallback is
\* called without arguments): the mapper of map / andThen / mapOr / mapOrElse
\* on Some and Ok only, mapErr's mapper on Err only, orElse's function and
\* mapOrElse's default on None and Err only.  In a chain of andThen calls
\* that starts from an Ok the mappers run in order, each at most once, none
\* runs after a mapper that returned an Err (or raised), and the chain's
\* result is that Err.
C12_CallbacksOnlyOnTheirVariant ==
    (~Ready /\ last.self # 0) =>
        LET cls == heap[last.self].cls
            present == cls \in {"SomeImpl", "OkImpl"}
            val == IF cls = "NoneImpl" THEN Undefined ELSE heap[last.self].val
            n == Len(last.calls)
        IN /\ (last.op \in {"map", "andThen", "mapOr"}) =>
                  IF present THEN OneCall(last.args[Len(last.args)], val)
                  ELSE NoCalls
           /\ (last.op = "mapOrElse") =>
                  IF present THEN OneCall(last.args[2], val)
                  ELSE OneCall(last.args[1], Undefined)
           /\ (last.op = "mapErr") =>
                  IF cls = "ErrImpl" THEN OneCall(last.args[1], val) ELSE NoCalls
           /\ (last.op = "orElse") =>
                  IF present THEN NoCalls ELSE OneCall(last.args[1], Undefined)
           /\ (last.op = "andThen" /\ cls = "ErrImpl") =>
                  ReturnedExisting(Ref(last.self))
           /\ (last.op = "andThen chain") =>
                  /\ n >= 1 /\ n <= Len(last.args)
                  /\ last.calls[1].arg = val
                  /\ \A j \in 1..n :
                         /\ last.calls[j].fn = last.args[j].name
                         /\ j < n => /\ CallReturned(j, "OkImpl")
                                     /\ last.calls[j + 1].arg =
                                            heap[last.calls[j].value.id].val
                  /\ n < Len(last.args) => ~CallReturned(n, "OkImpl")
                  /\ last.calls[n].type = "return" =>
                         /\ last.type = "return"
                         /\ last.value = last.calls[n].value
                  /\ last.calls[n].type = "throw" =>
                         /\ last.type = "throw"
                         /\ last.value = last.calls[n].value

\* in a chain of andThen calls the first mapper returned an Err: no later
\* mapper ran, and the chain returned that Err
C12_Witness ==
    /\ ~Ready
    /\ last.op = "andThen chain"
    /\ Len(last.calls) = 1
    /\ CallReturned(1, "ErrImpl")
    /\ last.value = last.calls[1].value

\* the last call returned an instance other than its receiver, with the
\* receiver's class, flags and value
ReturnedEqualToReceiver ==
    /\ last.type = "return"
    /\ last.value.k = "object"
    /\ last.value # Ref(last.self)
    /\ heap[last.value.id] = heap[last.self]

\* C13: toResult(e).toOption() on a Some returns a Some of the same value and
\* on None returns None; toOption().toResult(e2) on an Ok returns an Ok of
\* the same value; toOption() on an Err returns None.  The error handed to
\* toResult does not show in the result.
C13_RoundTrip ==
    (~Ready /\ last.self # 0) =>
        LET cls == heap[last.self].cls
        IN /\ (last.op = "toResult.toOption" /\ cls = "SomeImpl")
                  => ReturnedEqualToReceiver
           /\ (last.op = "toResult.toOption" /\ cls = "NoneImpl")
                  => (last.type = "return" /\ last.value = None)
           /\ (last.op = "toOption.toResult" /\ cls = "OkImpl")
                  => ReturnedEqualToReceiver
           /\ (last.op = "toOption" /\ cls = "ErrImpl")
                  => (last.type = "return" /\ last.value = None)

\* a Some of a number went to a Result and back, with an error value other
\* than the number
C13_Witness ==
    /\ ~Ready
    /\ last.op = "toResult.toOption"
    /\ heap[last.self].cls = "SomeImpl"
    /\ heap[last.self].val \in InputVals
    /\ last.args[1] # heap[last.self].val
    /\ heap[last.value.id].val = heap[last.self].val

\* the stack the engine gives an Error made with `message` in the accessor
\* `method` of ErrImpl called from `site`
StackOfErrorAt(message, method, site) ==
    Join(<<"Error: " \o message, "    at ErrImpl." \o method, site>>, "\n")

\* C14: unwrap() and expect(msg) on an Err raise an Error whose cause is the
\* wrapped value itself and whose message is a fixed lead ("Tried to unwrap
\* Error: ", or msg and " - Error: "), the stringified value, a line break and
\* the provenance text the Err has kept since its construction, whatever the
\* place the accessor is called from; and the provenance text of an Err the
\* caller constructs is the caller's frame, without the constructor's own.
C14_ErrMessageCarriesProvenance ==
    /\ (~Ready /\ last.self # 0 /\ last.op \in {"unwrap", "expect"}
            /\ heap[last.self].cls = "ErrImpl") =>
           LET e == heap[last.self]
               lead == IF last.op = "unwrap" THEN "Tried to unwrap Error: "
                       ELSE last.args[1].s \o " - Error: "
               message == lead \o toString(e.val, heap) \o "\n" \o e._stack
           IN /\ last.type = "throw"
              /\ last.value.k = "error"
              /\ last.value.hasCause
              /\ last.value.cause = e.val
              /\ last.value.message = message
              /\ \E site \in Sites :
                     last.value.stack = StackOfErrorAt(message, last.op, site)
    /\ (~Ready /\ last.op \in {"new Err", "Err"}) =>
           heap[last.value.id]._stack \in Sites

\* unwrap was called on an Err from another place than the one the Err was
\* constructed at
C14_Witness ==
    /\ ~Ready
    /\ last.op = "unwrap"
    /\ heap[last.self].cls = "ErrImpl"
    /\ heap[last.self]._stack = "    at siteA"
    /\ last.value.stack =
           StackOfErrorAt(last.value.message, "unwrap", "    at siteB")

====
